---- MODULE Spec2Model ----
(***************************************************************************)
(* Hotel_Flow: the booking / stay lifecycle and the billing state machine  *)
(* of the Express router (server/routes.ts) over the Postgres tables of    *)
(* shared/schema.ts.                                                       *)
(*                                                                         *)
(* The repository holds two revisions of the router: src/server/routes.ts  *)
(* and src/unnamed/part_008.  They are the same handler for handler except *)
(* for POST /bills/:bookingId/complete (and the admin gate of the user     *)
(* routes).  The variable revision says which one a behaviour runs; it     *)
(* never changes.                                                          *)
(*                                                                         *)
(* Every "await db...." outside db.transaction is one step of its own, so  *)
(* that requests interleave between a handler's reads and its              *)
(* transaction.  A db.transaction(...) is one atomic step: it commits all  *)
(* of its statements or, when a statement throws, none of them.            *)
(* Foreign keys are those of schema.ts (.references(...), no cascade): a   *)
(* statement that would leave a dangling reference throws.                 *)
(* Money is held in cents, time in half days (Day is one day).             *)
(***************************************************************************)
EXTENDS Integers, FiniteSets, Sequences, Bags, TLC

VARIABLES
    revision,   \* which revision of the router runs: "routes" or "part_008"
    rooms,      \* table rooms:      id -> [status, capacity, pricePerNight]
    guests,     \* table guests:     the set of ids present
    bookings,   \* table bookings:   id -> [guestId, roomId, status, numberOfGuests, checkInDate, checkOutDate]
    bills,      \* table bills:      id -> [bookingId, subtotal, taxAmount, total, isPaid]
    billItems,  \* table bill_items: id -> [bookingId, amount, quantity, category]
    archive,    \* table archived_bills: id -> [guestName, roomNumber, total, bookingId]
    nextId,     \* per table, the next fresh primary key (gen_random_uuid never repeats)
    inflight,   \* bag of requests that are between two awaits
    last,       \* the response sent last: [op, code, id, error]
    okCheckIns, \* the booking ids for which a check-in request was answered 200
    users       \* table users: id -> [username, role]

vars == <<revision, rooms, guests, bookings, bills, billItems, archive, nextId,
          inflight, last, okCheckIns, users>>

db == <<rooms, guests, bookings, bills, billItems, archive, nextId>>

(***************************************************************************)
(* Bounds of the model.                                                    *)
(***************************************************************************)
MaxRooms == 1
MaxGuests == 1
MaxBookings == 2
MaxBills == 1
MaxItems == 2
MaxArchive == 2
MaxInflight == 2
MaxLedgerBills == 2
MaxLedgerItems == 3
MaxUsers == 3

Revisions == {"routes", "part_008"}
RoomStatuses == {"available", "reserved", "occupied", "maintenance"}
ActiveStatuses == {"reserved", "checked-in", "checked-out"}
NoValue == "none"

RoomIds == 1..MaxRooms
GuestIds == 1..MaxGuests
BookingIds == 1..MaxBookings

\* Request bodies the model submits.
Capacities == {2}
Prices == {10000}
GuestCounts == {2, 3}
BodyStatuses == {NoValue, "reserved", "checked-in"}
Stays == {<<2, 6>>}
ItemAmounts == {1500}
\* Stays of two days, of no day, ending before they begin, and of half a day.
AnyStays == {<<2, 6>>, <<2, 2>>, <<6, 2>>, <<2, 3>>}
AnyAmounts == {1500, 445}
ItemQuantities == {1}

(***************************************************************************)
(* Tables.                                                                 *)
(***************************************************************************)
Insert(table, id, row) == (id :> row) @@ table

Delete(table, ids) == [i \in (DOMAIN table) \ ids |-> table[i]]

Update(table, ids, field, value) ==
    [i \in DOMAIN table |->
        IF i \in ids THEN [table[i] EXCEPT ![field] = value] ELSE table[i]]

Rows(table, bookingId) == {i \in DOMAIN table : table[i].bookingId = bookingId}

EmptyTable == [i \in {} |-> NoValue]

Idle == EmptyBag

Sent(req) == inflight (+) SetToBag({req})

Done(req) == inflight (-) SetToBag({req})

Pending(req) == BagIn(req, inflight)

InFlight(op) == BagCardinality([r \in {q \in BagToSet(inflight) : q.op = op} |-> inflight[r]])

Refuse(op, code, id, error) ==
    last' = [op |-> op, code |-> code, id |-> id, error |-> error]

Reply(op, code, id) == Refuse(op, code, id, NoValue)

\* A handler that answers without another await: the request never enters the bag.
Answer(op, code, id) == Reply(op, code, id) /\ UNCHANGED inflight

\* A handler that goes on to its next await.
Await(req) == inflight' = Sent(req) /\ UNCHANGED last

\* A request leaves its await: it answers, or goes on to the next await.
Finish(req, op, code, id) == inflight' = Done(req) /\ Reply(op, code, id)

Reject(req, op, code, id, error) == inflight' = Done(req) /\ Refuse(op, code, id, error)

Continue(req, next) == inflight' = Done(req) (+) SetToBag({next}) /\ UNCHANGED last

Init ==
    /\ revision \in Revisions
    /\ rooms = EmptyTable
    /\ guests = {}
    /\ bookings = EmptyTable
    /\ bills = EmptyTable
    /\ billItems = EmptyTable
    /\ archive = EmptyTable
    /\ nextId = [rooms |-> 1, guests |-> 1, bookings |-> 1, bills |-> 1,
                 billItems |-> 1, archive |-> 1, users |-> 2]
    /\ inflight = Idle
    /\ last = [op |-> NoValue, code |-> 0, id |-> 0, error |-> NoValue]
    /\ okCheckIns = {}
    /\ users = 1 :> [username |-> 1, role |-> "admin"]

(***************************************************************************)
(* Rooms and guests.                                                       *)
(***************************************************************************)
\* POST /rooms: insert the body; status defaults to available.
CreateRoom(capacity, price) ==
    /\ nextId.rooms <= MaxRooms
    /\ rooms' = Insert(rooms, nextId.rooms,
                       [status |-> "available", capacity |-> capacity,
                        pricePerNight |-> price])
    /\ nextId' = [nextId EXCEPT !.rooms = @ + 1]
    /\ Answer("create-room", 201, nextId.rooms)
    /\ UNCHANGED <<revision, users, guests, bookings, bills, billItems, archive, okCheckIns>>

\* PUT /rooms/:id: set the fields the body carries on the row, whatever they are.
UpdateRoom(id, field, value) ==
    /\ rooms' = Update(rooms, {id} \cap DOMAIN rooms, field, value)
    /\ Answer("update-room", IF id \in DOMAIN rooms THEN 200 ELSE 404, id)
    /\ UNCHANGED <<revision, users, guests, bookings, bills, billItems, archive, nextId, okCheckIns>>

RoomReferenced(id) == \E b \in DOMAIN bookings : bookings[b].roomId = id

\* DELETE /rooms/:id: delete the row; the foreign key of bookings.room_id throws.
DeleteRoom(id) ==
    /\ rooms' = IF RoomReferenced(id) THEN rooms ELSE Delete(rooms, {id})
    /\ Answer("delete-room", IF RoomReferenced(id) THEN 500 ELSE 204, id)
    /\ UNCHANGED <<revision, users, guests, bookings, bills, billItems, archive, nextId, okCheckIns>>

\* POST /guests
CreateGuest ==
    /\ nextId.guests <= MaxGuests
    /\ guests' = guests \cup {nextId.guests}
    /\ nextId' = [nextId EXCEPT !.guests = @ + 1]
    /\ Answer("create-guest", 201, nextId.guests)
    /\ UNCHANGED <<revision, users, rooms, bookings, bills, billItems, archive, okCheckIns>>

\* A bookings table whose guest_id column is no foreign key.
NoReference(id, bks) == FALSE

\* bookings.guest_id references guests.id: a guest some booking refers to cannot go.
GuestReferenced(id, bks) == \E b \in DOMAIN bks : bks[b].guestId = id

\* DELETE /guests/:id: delete the row; the foreign key of bookings.guest_id throws.
DeleteGuest(id) ==
    /\ guests' = IF GuestReferenced(id, bookings) THEN guests ELSE guests \ {id}
    /\ Answer("delete-guest",
               IF GuestReferenced(id, bookings) THEN 500 ELSE 204, id)
    /\ UNCHANGED <<revision, users, rooms, bookings, bills, billItems, archive, nextId, okCheckIns>>

(***************************************************************************)
(* Transactions.  A transaction works on a copy d of the tables; d.ok      *)
(* turns FALSE when a statement throws, and the statements after it do not *)
(* run.  fault names the statement (by position) that the database fails   *)
(* for a reason of its own (0: none).                                      *)
(***************************************************************************)
Begin == [ok |-> TRUE, rooms |-> rooms, guests |-> guests, bookings |-> bookings,
          bills |-> bills, billItems |-> billItems, archive |-> archive,
          nextId |-> nextId]

Throw(d) == [d EXCEPT !.ok = FALSE]

\* A store without transactions keeps what the callback wrote before it threw (as
\* DrizzleStorage.completeAndArchiveBill, which the router does not call, would).
NoRollback(d) == d

\* db.transaction: commit what the callback wrote, or roll all of it back.
Commit(d) == IF d.ok THEN d ELSE Begin

Store(d) ==
    /\ rooms' = d.rooms
    /\ guests' = d.guests
    /\ bookings' = d.bookings
    /\ bills' = d.bills
    /\ billItems' = d.billItems
    /\ archive' = d.archive
    /\ nextId' = d.nextId

Faulty(d, fault, k) == d.ok /\ fault = k

\* tx.insert(bookings).values(row): guest_id and room_id are foreign keys.
InsertBooking(d, row) ==
    IF ~d.ok THEN d
    ELSE IF row.guestId \notin d.guests \/ row.roomId \notin DOMAIN d.rooms THEN Throw(d)
    ELSE [d EXCEPT !.bookings = Insert(@, d.nextId.bookings, row),
                   !.nextId.bookings = @ + 1]

\* tx.update(rooms).set({ status }).where(eq(rooms.id, id))
SetRoomStatus(d, id, status) ==
    IF ~d.ok THEN d
    ELSE [d EXCEPT !.rooms = Update(@, {id} \cap DOMAIN @, "status", status)]

\* tx.update(bookings).set({ status }).where(eq(bookings.id, id))
SetBookingStatus(d, id, status) ==
    IF ~d.ok THEN d
    ELSE [d EXCEPT !.bookings = Update(@, {id} \cap DOMAIN @, "status", status)]

Fail(d, fault, k) == IF Faulty(d, fault, k) THEN Throw(d) ELSE d

(***************************************************************************)
(* POST /bookings                                                          *)
(***************************************************************************)
Bodies(statuses, stays) ==
    [guestId : GuestIds, roomId : RoomIds, numberOfGuests : GuestCounts,
     status : statuses, stay : stays]

\* The row the insert stores: the validated body as it is; the column default
\* "reserved" fills in a status the body does not carry.
BookingRow(body) ==
    [guestId |-> body.guestId, roomId |-> body.roomId,
     status |-> IF body.status = NoValue THEN "reserved" ELSE body.status,
     numberOfGuests |-> body.numberOfGuests,
     checkInDate |-> body.stay[1], checkOutDate |-> body.stay[2]]

\* The checks without the one of the room's status.
CodeIgnoringStatus(body) ==
    IF body.roomId \notin DOMAIN rooms THEN 404
    ELSE IF body.numberOfGuests > rooms[body.roomId].capacity THEN 400
    ELSE 0

\* Steps 1-3: read the room, check capacity, then availability.
CreateBookingCode(body) ==
    IF body.roomId \notin DOMAIN rooms THEN 404
    ELSE IF body.numberOfGuests > rooms[body.roomId].capacity THEN 400
    ELSE IF rooms[body.roomId].status # "available" THEN 400
    ELSE 0

\* The checks with availability before capacity.
AvailabilityFirst(body) ==
    IF body.roomId \notin DOMAIN rooms THEN "not-found"
    ELSE IF rooms[body.roomId].status # "available" THEN "status"
    ELSE IF body.numberOfGuests > rooms[body.roomId].capacity THEN "capacity"
    ELSE NoValue

\* The error the response names: room not found, capacity exceeded, or the room's
\* current status.
CreateBookingError(body) ==
    IF body.roomId \notin DOMAIN rooms THEN "not-found"
    ELSE IF body.numberOfGuests > rooms[body.roomId].capacity THEN "capacity"
    ELSE IF rooms[body.roomId].status # "available" THEN "status"
    ELSE NoValue

CreateBookingRead(body) ==
    /\ nextId.bookings + InFlight("create-booking") <= MaxBookings
    /\ IF CreateBookingCode(body) # 0
       THEN /\ Refuse("create-booking", CreateBookingCode(body), 0,
                      CreateBookingError(body))
            /\ UNCHANGED inflight
       ELSE /\ BagCardinality(inflight) < MaxInflight
            /\ Await([op |-> "create-booking", pc |-> "tx", body |-> body])
    /\ UNCHANGED <<revision, users, db, okCheckIns>>

\* DrizzleStorage.createBooking, which the router does not call: the two statements
\* without a transaction, so that a failing room update leaves the booking.
CreateBookingAsStorage(body, fault) ==
    LET d1 == InsertBooking(Fail(Begin, fault, 1), BookingRow(body))
    IN  IF Faulty(d1, fault, 2) THEN d1
        ELSE SetRoomStatus(d1, body.roomId, "reserved")

\* Step 4: the transaction: insert the booking, set the room reserved.
CreateBookingStatements(body, fault) ==
    LET d1 == InsertBooking(Fail(Begin, fault, 1), BookingRow(body))
        d2 == SetRoomStatus(Fail(d1, fault, 2), body.roomId, "reserved")
    IN  d2

CreateBookingTx(req, fault) ==
    /\ Pending(req) /\ req.op = "create-booking"
    /\ LET d == CreateBookingStatements(req.body, fault)
       IN  /\ Store(Commit(d))
           /\ Finish(req, "create-booking", IF d.ok THEN 201 ELSE 500,
                     IF d.ok THEN nextId.bookings ELSE 0)
    /\ UNCHANGED <<revision, users, okCheckIns>>

(***************************************************************************)
(* POST /bookings/:id/check-in                                             *)
(***************************************************************************)
\* Read the booking; keep its roomId for the transaction.  (first is not a local of
\* the handler: it notes that no check-in of the booking had been answered 200 when
\* this one read it.)
CheckInRead(id) ==
    /\ IF id \notin DOMAIN bookings
       THEN Answer("check-in", 404, id)
       ELSE /\ BagCardinality(inflight) < MaxInflight
            /\ Await([op |-> "check-in", pc |-> "bill", id |-> id,
                      roomId |-> bookings[id].roomId,
                      first |-> id \notin okCheckIns])
    /\ UNCHANGED <<revision, users, db, okCheckIns>>

\* Read the booking's bill: one that exists refuses the check-in.
CheckInBill(req) ==
    /\ Pending(req) /\ req.op = "check-in" /\ req.pc = "bill"
    /\ IF Rows(bills, req.id) # {}
       THEN Reject(req, "check-in", 400, req.id, "bill-exists")
       ELSE Continue(req, [req EXCEPT !.pc = "tx"])
    /\ UNCHANGED <<revision, users, db, okCheckIns>>

\* A check-in that leaves the room as it is.
CheckInBookingOnly(id, roomId) ==
    LET d1 == SetBookingStatus(Begin, id, "checked-in")
    IN  IF id \notin DOMAIN d1.bookings THEN Throw(d1) ELSE d1

\* A check-in that does not look at what its update returned.
CheckInUnchecked(id, roomId) ==
    SetRoomStatus(SetBookingStatus(Begin, id, "checked-in"), roomId, "occupied")

\* The transaction: set the booking checked-in (throw when no row was updated),
\* then the room occupied.
CheckInStatements(id, roomId) ==
    LET d1 == SetBookingStatus(Begin, id, "checked-in")
        d2 == IF id \notin DOMAIN d1.bookings THEN Throw(d1) ELSE d1
    IN  SetRoomStatus(d2, roomId, "occupied")

CheckInTx(req) ==
    /\ Pending(req) /\ req.op = "check-in" /\ req.pc = "tx"
    /\ LET d == CheckInStatements(req.id, req.roomId)
       IN  /\ Store(Commit(d))
           /\ IF d.ok
              THEN Finish(req, "check-in", 200, req.id)
              ELSE Reject(req, "check-in", 400, req.id, "not-updated")
           /\ okCheckIns' = IF d.ok THEN okCheckIns \cup {req.id} ELSE okCheckIns
    /\ UNCHANGED <<revision, users>>

(***************************************************************************)
(* POST /bookings/:id/check-out                                            *)
(***************************************************************************)
CheckOutRead(id) ==
    /\ IF id \notin DOMAIN bookings
       THEN Answer("check-out", 404, id)
       ELSE /\ BagCardinality(inflight) < MaxInflight
            /\ Await([op |-> "check-out", pc |-> "tx", id |-> id])
    /\ UNCHANGED <<revision, users, db, okCheckIns>>

\* DrizzleStorage.updateBookingStatus, which the router does not call, also releases
\* the room.
CheckOutReleasingRoom(id) ==
    LET d == SetBookingStatus(Begin, id, "checked-out")
    IN  IF id \in DOMAIN d.bookings
        THEN SetRoomStatus(d, d.bookings[id].roomId, "available")
        ELSE d

\* The transaction: set the booking checked-out, and nothing else.
CheckOutStatements(id) == SetBookingStatus(Begin, id, "checked-out")

CheckOutTx(req) ==
    /\ Pending(req) /\ req.op = "check-out" /\ req.pc = "tx"
    /\ Store(Commit(CheckOutStatements(req.id)))
    /\ Finish(req, "check-out", 200, req.id)
    /\ UNCHANGED <<revision, users, okCheckIns>>

(***************************************************************************)
(* Bills.                                                                  *)
(***************************************************************************)
Day == 2
TaxPercent == 10

RECURSIVE SumItems(_, _)
SumItems(items, ids) ==
    IF ids = {} THEN 0
    ELSE LET i == CHOOSE j \in ids : TRUE
         IN  items[i].amount * items[i].quantity + SumItems(items, ids \ {i})

\* Number.toFixed(2) of a non-negative amount given in hundredths of a cent.
ToFixed2(x) == (x + 50) \div 100

\* The figures of calculateBill are IEEE-754 doubles.  Where the decimal value is
\* half a cent, toFixed(2) goes by the side of it the double lies on.  Of the
\* subtotals (in cents) that the amounts above make, these have the double of
\* subtotal + subtotal * 0.10 below the half cent; subtotal * 0.10 is never below.
TotalBelowTie == {1945, 20445, 21945}

TaxBelowTie == {}

\* The double of a decimal value x (in hundredths of a cent), to the side it lies on.
Double(x, below) == IF below THEN x - 1 ELSE x

\* calculateBill: the three figures, each rounded on its own from the unrounded sum.
calculateBill(items) ==
    LET subtotal == SumItems(items, DOMAIN items)
        taxAmount == Double(subtotal * TaxPercent, subtotal \in TaxBelowTie)
        total == Double(subtotal * 100 + subtotal * TaxPercent,
                        subtotal \in TotalBelowTie)
    IN  [subtotal |-> subtotal,
         taxAmount |-> ToFixed2(taxAmount),
         total |-> ToFixed2(total)]

Abs(x) == IF x < 0 THEN -x ELSE x

Ceil(a, b) == (a + b - 1) \div b

\* The nights without the charge of at least one.
NightsUnclamped(checkInDate, checkOutDate) ==
    Ceil(Abs(checkOutDate - checkInDate), Day)

\* Math.ceil(Math.abs(out - in) / 1 day), and 1 when that is 0.
numberOfNights(checkInDate, checkOutDate) ==
    LET diffDays == Ceil(Abs(checkOutDate - checkInDate), Day)
    IN  IF diffDays = 0 THEN 1 ELSE diffDays

\* tx.insert(billItems).values(row): booking_id is a foreign key.
InsertItem(d, row) ==
    IF ~d.ok THEN d
    ELSE IF row.bookingId \notin DOMAIN d.bookings THEN Throw(d)
    ELSE [d EXCEPT !.billItems = Insert(@, d.nextId.billItems, row),
                   !.nextId.billItems = @ + 1]

\* tx.insert(bills).values(row): booking_id is a foreign key, and not unique.
InsertBill(d, row) ==
    IF ~d.ok THEN d
    ELSE IF row.bookingId \notin DOMAIN d.bookings THEN Throw(d)
    ELSE [d EXCEPT !.bills = Insert(@, d.nextId.bills, row),
                   !.nextId.bills = @ + 1]

\* tx.update(bills).set(totals).where(eq(bills.bookingId, bookingId))
SetBillTotals(d, bookingId, totals) ==
    IF ~d.ok THEN d
    ELSE [d EXCEPT !.bills =
            [i \in DOMAIN @ |->
                IF @[i].bookingId = bookingId
                THEN [@[i] EXCEPT !.subtotal = totals.subtotal,
                                  !.taxAmount = totals.taxAmount,
                                  !.total = totals.total]
                ELSE @[i]]]

\* The bill and bill item rows a model may hold: lim is Desk or Ledger.
Desk == [bills |-> MaxBills, items |-> MaxItems]

Ledger == [bills |-> MaxLedgerBills, items |-> MaxLedgerItems]

ItemBudget(lim) ==
    nextId.billItems + InFlight("generate-bill") + InFlight("add-item") <= lim.items

(***************************************************************************)
(* POST /bills/generate                                                    *)
(***************************************************************************)
\* 1. A bill that exists refuses the request.
GenerateRead(id, lim) ==
    /\ ItemBudget(lim)
    /\ nextId.bills + InFlight("generate-bill") <= lim.bills
    /\ IF Rows(bills, id) # {}
       THEN Refuse("generate-bill", 400, id, "bill-exists") /\ UNCHANGED inflight
       ELSE /\ BagCardinality(inflight) < MaxInflight
            /\ Await([op |-> "generate-bill", pc |-> "booking", id |-> id])
    /\ UNCHANGED <<revision, users, db, okCheckIns>>

\* 2. Read the booking.
GenerateBooking(req) ==
    /\ Pending(req) /\ req.op = "generate-bill" /\ req.pc = "booking"
    /\ IF req.id \notin DOMAIN bookings
       THEN Finish(req, "generate-bill", 404, req.id)
       ELSE Continue(req, [op |-> "generate-bill", pc |-> "room", id |-> req.id,
                           booking |-> bookings[req.id]])
    /\ UNCHANGED <<revision, users, db, okCheckIns>>

\* The room charge: the room's price, once per night.
roomChargeItem(id, booking, room) ==
    [bookingId |-> id, amount |-> room.pricePerNight,
     quantity |-> numberOfNights(booking.checkInDate, booking.checkOutDate),
     category |-> "room"]

\* 3. Read the room and build the room charge.
GenerateRoom(req) ==
    /\ Pending(req) /\ req.op = "generate-bill" /\ req.pc = "room"
    /\ IF req.booking.roomId \notin DOMAIN rooms
       THEN Finish(req, "generate-bill", 500, req.id)
       ELSE Continue(req, [op |-> "generate-bill", pc |-> "tx", id |-> req.id,
                           item |-> roomChargeItem(req.id, req.booking,
                                                   rooms[req.booking.roomId])])
    /\ UNCHANGED <<revision, users, db, okCheckIns>>

\* 4. The transaction: insert the room charge, then the bill with its totals.
GenerateStatements(item, fault) ==
    LET totals == calculateBill(1 :> item)
        d1 == InsertItem(Fail(Begin, fault, 1), item)
        d2 == InsertBill(Fail(d1, fault, 2),
                         [bookingId |-> item.bookingId, subtotal |-> totals.subtotal,
                          taxAmount |-> totals.taxAmount, total |-> totals.total,
                          isPaid |-> FALSE])
    IN  d2

GenerateTx(req, fault) ==
    /\ Pending(req) /\ req.op = "generate-bill" /\ req.pc = "tx"
    /\ LET d == GenerateStatements(req.item, fault)
       IN  /\ Store(Commit(d))
           /\ Finish(req, "generate-bill", IF d.ok THEN 201 ELSE 500, req.id)
    /\ UNCHANGED <<revision, users, okCheckIns>>

(***************************************************************************)
(* POST /bills/add-item                                                    *)
(***************************************************************************)
NewItems(amounts) ==
    [bookingId : BookingIds, amount : amounts, quantity : ItemQuantities,
     category : {"service"}]

\* 1. Read the booking's items.
AddItemRead(newItem, lim) ==
    /\ ItemBudget(lim)
    /\ BagCardinality(inflight) < MaxInflight
    /\ Await([op |-> "add-item", pc |-> "bill", newItem |-> newItem,
              currentItems |-> [i \in Rows(billItems, newItem.bookingId) |-> billItems[i]]])
    /\ UNCHANGED <<revision, users, db, okCheckIns>>

\* An add-item that does not look for the bill.
AddItemSkippingBill(req) ==
    /\ Pending(req) /\ req.op = "add-item" /\ req.pc = "bill"
    /\ Continue(req, [req EXCEPT !.pc = "tx"])
    /\ UNCHANGED <<revision, users, db, okCheckIns>>

\* Then its bill: none, no item.
AddItemBill(req) ==
    /\ Pending(req) /\ req.op = "add-item" /\ req.pc = "bill"
    /\ IF Rows(bills, req.newItem.bookingId) = {}
       THEN Finish(req, "add-item", 404, req.newItem.bookingId)
       ELSE Continue(req, [req EXCEPT !.pc = "tx"])
    /\ UNCHANGED <<revision, users, db, okCheckIns>>

\* 2. The transaction: insert the item, recompute the totals from the items read
\* in step 1 and the new one, write them to the booking's bill.
AddItemStatements(newItem, currentItems) ==
    LET allItems == (0 :> newItem) @@ currentItems
        d1 == InsertItem(Begin, newItem)
    IN  SetBillTotals(d1, newItem.bookingId, calculateBill(allItems))

AddItemTx(req) ==
    /\ Pending(req) /\ req.op = "add-item" /\ req.pc = "tx"
    /\ LET d == AddItemStatements(req.newItem, req.currentItems)
       IN  /\ Store(Commit(d))
           /\ Finish(req, "add-item", IF d.ok THEN 201 ELSE 500, req.newItem.bookingId)
    /\ UNCHANGED <<revision, users, okCheckIns>>

(***************************************************************************)
(* POST /bills/:bookingId/complete                                         *)
(***************************************************************************)
\* An archive of one row: each completion writes over the row of the one before.
OverwriteArchive(d, row) ==
    IF ~d.ok THEN d
    ELSE [d EXCEPT !.archive = [i \in {1} |-> row],
                   !.nextId.archive = @ + 1]

\* tx.insert(archivedBills).values(row): the table references no other.
InsertArchive(d, row) ==
    IF ~d.ok THEN d
    ELSE [d EXCEPT !.archive = Insert(@, d.nextId.archive, row),
                   !.nextId.archive = @ + 1]

\* tx.update(bills).set({ isPaid: true }).where(eq(bills.id, id))
SetBillPaid(d, id) ==
    IF ~d.ok THEN d
    ELSE [d EXCEPT !.bills = Update(@, {id} \cap DOMAIN @, "isPaid", TRUE)]

\* tx.delete(billItems).where(eq(billItems.bookingId, bookingId))
DeleteItems(d, bookingId) ==
    IF ~d.ok THEN d
    ELSE [d EXCEPT !.billItems = Delete(@, Rows(@, bookingId))]

\* tx.delete(bills).where(eq(bills.bookingId, bookingId))
DeleteBills(d, bookingId) ==
    IF ~d.ok THEN d
    ELSE [d EXCEPT !.bills = Delete(@, Rows(@, bookingId))]

\* tx.delete(bookings).where(eq(bookings.id, id)): bills and bill items refer to it.
DeleteBooking(d, id) ==
    IF ~d.ok THEN d
    ELSE IF id \in DOMAIN d.bookings
            /\ (Rows(d.bills, id) # {} \/ Rows(d.billItems, id) # {}) THEN Throw(d)
    ELSE [d EXCEPT !.bookings = Delete(@, {id})]

\* tx.delete(guests).where(eq(guests.id, id)): bookings refer to it.
DeleteGuestRow(d, id) ==
    IF ~d.ok THEN d
    ELSE IF id \in d.guests /\ GuestReferenced(id, d.bookings) THEN Throw(d)
    ELSE [d EXCEPT !.guests = @ \ {id}]

\* 1. Read the booking, left-joined with its guest and its room.
CompleteRead(id) ==
    /\ nextId.archive + InFlight("complete-bill") <= MaxArchive
    /\ IF id \notin DOMAIN bookings
       THEN Answer("complete-bill", 404, id)
       ELSE /\ BagCardinality(inflight) < MaxInflight
            /\ Await([op |-> "complete-bill", pc |-> "bill", id |-> id,
                      booking |-> bookings[id],
                      guest |-> IF bookings[id].guestId \in guests
                                THEN bookings[id].guestId ELSE NoValue,
                      room |-> IF bookings[id].roomId \in DOMAIN rooms
                               THEN bookings[id].roomId ELSE NoValue])
    /\ UNCHANGED <<revision, users, db, okCheckIns>>

\* Then one of its bills (limit 1).
CompleteBill(req) ==
    /\ Pending(req) /\ req.op = "complete-bill" /\ req.pc = "bill"
    /\ IF Rows(bills, req.id) = {}
       THEN Finish(req, "complete-bill", 404, req.id)
       ELSE \E b \in Rows(bills, req.id) :
                Continue(req, [op |-> "complete-bill", pc |-> "tx", id |-> req.id,
                               booking |-> req.booking, guest |-> req.guest,
                               room |-> req.room,
                               bill |-> [id |-> b, total |-> bills[b].total]])
    /\ UNCHANGED <<revision, users, db, okCheckIns>>

\* The snapshot of the stay (bookingId is not a column: it names the stay here).
ArchiveRow(req) ==
    [guestName |-> req.guest, roomNumber |-> req.room,
     checkInDate |-> req.booking.checkInDate, checkOutDate |-> req.booking.checkOutDate,
     total |-> req.bill.total, bookingId |-> req.id]

\* 2. The transaction as src/server/routes.ts has it: archive, mark the bill paid,
\* release the room, mark the booking completed, delete the guest.
CompleteStatementsRoutes(req, fault) ==
    LET d1 == InsertArchive(Fail(Begin, fault, 1), ArchiveRow(req))
        d2 == SetBillPaid(Fail(d1, fault, 2), req.bill.id)
        d3 == SetRoomStatus(Fail(d2, fault, 3), req.booking.roomId, "available")
        d4 == SetBookingStatus(Fail(d3, fault, 4), req.id, "completed")
        d5 == DeleteGuestRow(Fail(d4, fault, 5), req.booking.guestId)
    IN  d5

\* DrizzleStorage.completeAndArchiveBill keeps the guest.
CompleteKeepingGuest(req, fault) ==
    LET d1 == InsertArchive(Fail(Begin, fault, 1), ArchiveRow(req))
        d2 == SetBillPaid(Fail(d1, fault, 2), req.bill.id)
        d3 == SetRoomStatus(Fail(d2, fault, 3), req.booking.roomId, "available")
        d4 == DeleteItems(Fail(d3, fault, 4), req.id)
        d5 == DeleteBills(Fail(d4, fault, 5), req.id)
        d6 == DeleteBooking(Fail(d5, fault, 6), req.id)
    IN  d6

\* A completion that marks the bill paid and keeps every row of the stay.
CompleteMarkingPaid(req, fault) ==
    LET d1 == InsertArchive(Fail(Begin, fault, 1), ArchiveRow(req))
        d2 == SetBillPaid(Fail(d1, fault, 2), req.bill.id)
        d3 == SetRoomStatus(Fail(d2, fault, 3), req.booking.roomId, "available")
    IN  d3

\* 2. The transaction as src/unnamed/part_008 has it: archive, mark the bill paid,
\* release the room, delete the bill items, the bills, the booking, the guest.
CompleteStatements(req, fault) ==
    LET d1 == InsertArchive(Fail(Begin, fault, 1), ArchiveRow(req))
        d2 == SetBillPaid(Fail(d1, fault, 2), req.bill.id)
        d3 == SetRoomStatus(Fail(d2, fault, 3), req.booking.roomId, "available")
        d4 == DeleteItems(Fail(d3, fault, 4), req.id)
        d5 == DeleteBills(Fail(d4, fault, 5), req.id)
        d6 == DeleteBooking(Fail(d5, fault, 6), req.id)
        d7 == DeleteGuestRow(Fail(d6, fault, 7), req.booking.guestId)
    IN  d7

CompleteTx(req, fault) ==
    /\ Pending(req) /\ req.op = "complete-bill" /\ req.pc = "tx"
    /\ LET d == IF revision = "routes"
                       THEN CompleteStatementsRoutes(req, fault)
                       ELSE CompleteStatements(req, fault)
       IN  /\ Store(Commit(d))
           /\ Finish(req, "complete-bill", IF d.ok THEN 200 ELSE 500, req.id)
    /\ UNCHANGED <<revision, users, okCheckIns>>

(***************************************************************************)
(* Users.  GET /users and DELETE /users/:id exist in src/unnamed/part_008  *)
(* only; POST /register is behind requireAdmin there and open in           *)
(* src/server/routes.ts.  The first user is there from the start.          *)
(***************************************************************************)
UserIds == 1..MaxUsers
Usernames == 1..MaxUsers
Roles == {"admin", "staff"}
\* Header x-user-id: absent, an id no user has, a user's id.
NoHeader == -1
Stranger == 0
Callers == {NoHeader, Stranger} \cup UserIds

\* requireAdmin: 0 when it calls next().
requireAdmin(caller) ==
    IF caller = NoHeader THEN 401
    ELSE IF caller \notin DOMAIN users THEN 401
    ELSE IF users[caller].role # "admin" THEN 403
    ELSE 0

\* The answer of the gate in front of a route of part_008; routes.ts has none.
Gate(caller) == IF revision = "part_008" THEN requireAdmin(caller) ELSE 0

UsersFrame ==
    UNCHANGED <<revision, rooms, guests, bookings, bills, billItems, archive,
                okCheckIns>>

\* POST /register: the gate, then on to the read of the username.
RegisterRead(caller, username, role) ==
    /\ nextId.users + InFlight("register") <= MaxUsers
    /\ IF Gate(caller) # 0
       THEN Answer("register", Gate(caller), 0)
       ELSE /\ BagCardinality(inflight) < MaxInflight
            /\ Await([op |-> "register", pc |-> "existing", caller |-> caller,
                      username |-> username, role |-> role])
    /\ UNCHANGED <<users, nextId>> /\ UsersFrame

UsernameTaken(username) == \E u \in DOMAIN users : users[u].username = username

\* A username that exists is answered 409.
RegisterExisting(req) ==
    /\ Pending(req) /\ req.op = "register" /\ req.pc = "existing"
    /\ IF UsernameTaken(req.username)
       THEN Finish(req, "register", 409, 0)
       ELSE Continue(req, [req EXCEPT !.pc = "insert"])
    /\ UNCHANGED <<users, nextId>> /\ UsersFrame

\* After the hash: insert the user; username is unique in the table.
RegisterInsert(req) ==
    /\ Pending(req) /\ req.op = "register" /\ req.pc = "insert"
    /\ IF UsernameTaken(req.username)
       THEN /\ Finish(req, "register", 500, 0)
            /\ UNCHANGED <<users, nextId>>
       ELSE /\ users' = Insert(users, nextId.users,
                               [username |-> req.username, role |-> req.role])
            /\ nextId' = [nextId EXCEPT !.users = @ + 1]
            /\ Finish(req, "register", 201, nextId.users)
    /\ UsersFrame

\* DELETE /users/:id: the gate, the caller's own account, then on to the read.
DeleteUserRead(caller, id) ==
    /\ IF revision # "part_008" THEN Answer("delete-user", 404, id)
       ELSE IF Gate(caller) # 0 THEN Answer("delete-user", Gate(caller), id)
       ELSE IF id = caller THEN Answer("delete-user", 400, id)
       ELSE /\ BagCardinality(inflight) < MaxInflight
            /\ Await([op |-> "delete-user", pc |-> "select", caller |-> caller,
                      id |-> id])
    /\ UNCHANGED <<users, nextId>> /\ UsersFrame

DeleteUserSelect(req) ==
    /\ Pending(req) /\ req.op = "delete-user" /\ req.pc = "select"
    /\ IF req.id \notin DOMAIN users
       THEN Finish(req, "delete-user", 404, req.id)
       ELSE Continue(req, [req EXCEPT !.pc = "delete"])
    /\ UNCHANGED <<users, nextId>> /\ UsersFrame

DeleteUserDelete(req) ==
    /\ Pending(req) /\ req.op = "delete-user" /\ req.pc = "delete"
    /\ users' = Delete(users, {req.id})
    /\ Finish(req, "delete-user", 204, req.id)
    /\ UNCHANGED nextId /\ UsersFrame

\* GET /users: the gate, then the read.
ListUsersRead(caller) ==
    /\ IF revision # "part_008" THEN Answer("list-users", 404, 0)
       ELSE IF Gate(caller) # 0 THEN Answer("list-users", Gate(caller), 0)
       ELSE /\ BagCardinality(inflight) < MaxInflight
            /\ Await([op |-> "list-users", pc |-> "select", caller |-> caller])
    /\ UNCHANGED <<users, nextId>> /\ UsersFrame

ListUsersSelect(req) ==
    /\ Pending(req) /\ req.op = "list-users" /\ req.pc = "select"
    /\ Finish(req, "list-users", 200, 0)
    /\ UNCHANGED <<users, nextId>> /\ UsersFrame

(***************************************************************************)
(* The router.                                                             *)
(***************************************************************************)
Requests == BagToSet(inflight)

Faults == 0..7

Router(statuses) ==
    \/ \E c \in Capacities, p \in Prices : CreateRoom(c, p)
    \/ \E id \in RoomIds, s \in RoomStatuses : UpdateRoom(id, "status", s)
    \/ \E id \in RoomIds : DeleteRoom(id)
    \/ CreateGuest
    \/ \E id \in GuestIds : DeleteGuest(id)
    \/ \E body \in Bodies(statuses, Stays) : CreateBookingRead(body)
    \/ \E req \in Requests, fault \in 0..2 : CreateBookingTx(req, fault)
    \/ \E id \in BookingIds : CheckInRead(id)
    \/ \E req \in Requests : CheckInBill(req)
    \/ \E req \in Requests : CheckInTx(req)
    \/ \E id \in BookingIds : CheckOutRead(id)
    \/ \E req \in Requests : CheckOutTx(req)
    \/ \E id \in BookingIds : GenerateRead(id, Desk)
    \/ \E req \in Requests : GenerateBooking(req)
    \/ \E req \in Requests : GenerateRoom(req)
    \/ \E req \in Requests, fault \in 0..2 : GenerateTx(req, fault)
    \/ \E item \in NewItems(ItemAmounts) : AddItemRead(item, Desk)
    \/ \E req \in Requests : AddItemBill(req)
    \/ \E req \in Requests : AddItemTx(req)
    \/ \E id \in BookingIds : CompleteRead(id)
    \/ \E req \in Requests : CompleteBill(req)
    \/ \E req \in Requests, fault \in Faults : CompleteTx(req, fault)

\* Any client: a create-booking body may carry a status.
Next == Router(BodyStatuses)

Spec == Init /\ [][Next]_vars

\* The repository's own client (client/src/pages/bookings.tsx), whose create-booking
\* bodies carry the status reserved.  Every behaviour of Plain is one of Spec.
NextPlain == Router({"reserved"})

Plain == Init /\ [][NextPlain]_vars

\* The billing routes on bookings of any stay, with items of any amount and room for
\* a second bill: rooms, guests and bookings are only created.
NextBilling ==
    \/ \E c \in Capacities, p \in Prices : CreateRoom(c, p)
    \/ CreateGuest
    \/ \E body \in Bodies({"reserved"}, AnyStays) : CreateBookingRead(body)
    \/ \E req \in Requests, fault \in 0..2 : CreateBookingTx(req, fault)
    \/ \E id \in BookingIds : GenerateRead(id, Ledger)
    \/ \E req \in Requests : GenerateBooking(req)
    \/ \E req \in Requests : GenerateRoom(req)
    \/ \E req \in Requests, fault \in 0..2 : GenerateTx(req, fault)
    \/ \E item \in NewItems(AnyAmounts) : AddItemRead(item, Ledger)
    \/ \E req \in Requests : AddItemBill(req)
    \/ \E req \in Requests : AddItemTx(req)

Billing == Init /\ [][NextBilling]_vars

\* The user routes.
NextAccounts ==
    \/ \E caller \in Callers, username \in Usernames, role \in Roles :
           RegisterRead(caller, username, role)
    \/ \E req \in Requests : RegisterExisting(req)
    \/ \E req \in Requests : RegisterInsert(req)
    \/ \E caller \in Callers, id \in UserIds : DeleteUserRead(caller, id)
    \/ \E req \in Requests : DeleteUserSelect(req)
    \/ \E req \in Requests : DeleteUserDelete(req)
    \/ \E caller \in Callers : ListUsersRead(caller)
    \/ \E req \in Requests : ListUsersSelect(req)

Accounts == Init /\ [][NextAccounts]_vars

\* One request at a time: a request is taken up only when none is in a handler.
NextSerial ==
    /\ NextPlain
    /\ \/ inflight = Idle
       \/ inflight' # inflight /\ BagCardinality(inflight') <= 1

Serial == Init /\ [][NextSerial]_vars

(***************************************************************************)
(* Properties.                                                             *)
(***************************************************************************)
\* The step in which request req runs its transaction and is answered.
TxStep(req, op) ==
    /\ Pending(req) /\ req.op = op /\ req.pc = "tx"
    /\ inflight' = Done(req)

TxOk(req, op, code) == TxStep(req, op) /\ last'.op = op /\ last'.code = code

Answered(op, code) == last.op = op /\ last.code = code

RoomOf(b) == bookings[b].roomId

\* C1: for every booking, status reserved implies its room is reserved, and status
\* checked-in implies its room is occupied, in every reachable state.
C1_StatusesAgree ==
    \A b \in DOMAIN bookings :
        /\ bookings[b].status = "reserved" =>
               RoomOf(b) \in DOMAIN rooms /\ rooms[RoomOf(b)].status = "reserved"
        /\ bookings[b].status = "checked-in" =>
               RoomOf(b) \in DOMAIN rooms /\ rooms[RoomOf(b)].status = "occupied"

\* C2: a booking's status changes only one state forward along
\* reserved -> checked-in -> checked-out -> completed (the row's removal by
\* complete-bill being its completion).
Forward ==
    {<<"reserved", "checked-in">>, <<"checked-in", "checked-out">>,
     <<"checked-out", "completed">>}

C2_ForwardOnly ==
    [][\A b \in DOMAIN bookings :
          IF b \in DOMAIN bookings'
          THEN \/ bookings'[b].status = bookings[b].status
               \/ <<bookings[b].status, bookings'[b].status>> \in Forward
          ELSE bookings[b].status = "checked-out"]_vars

\* C3: no two active (reserved, checked-in, checked-out) bookings refer to the same
\* room, in every reachable state.
C3_OneActiveBookingPerRoom ==
    \A b1, b2 \in DOMAIN bookings :
        (/\ b1 # b2
         /\ bookings[b1].status \in ActiveStatuses
         /\ bookings[b2].status \in ActiveStatuses) => RoomOf(b1) # RoomOf(b2)

\* C4: a create-booking answered 201 has inserted exactly one booking, stored with
\* status reserved whatever the body carried, and left its room reserved.
C4_CreatedReserved ==
    [][\A req \in Requests :
          TxOk(req, "create-booking", 201) =>
              /\ DOMAIN bookings' = DOMAIN bookings \cup {nextId.bookings}
              /\ nextId.bookings \notin DOMAIN bookings
              /\ bookings'[nextId.bookings].status = "reserved"
              /\ rooms'[req.body.roomId].status = "reserved"]_vars

\* C5: of create-booking requests that interleave on one available room at most one
\* is answered 201: none commits on a room that another booking has reserved since
\* the request checked it.
C5_SecondCreateRejected ==
    [][\A req \in Requests :
          TxOk(req, "create-booking", 201) =>
              ~ /\ req.body.roomId \in DOMAIN rooms
                /\ rooms[req.body.roomId].status = "reserved"
                /\ \E b \in DOMAIN bookings :
                       RoomOf(b) = req.body.roomId /\ bookings[b].status = "reserved"]_vars

\* C6: of check-in requests that interleave on one booking at most one is answered
\* 200: a request that read the booking before any check-in of it succeeded is not
\* answered 200 once another one has been.
C6_SecondCheckInFails ==
    [][\A req \in Requests :
          TxOk(req, "check-in", 200) => ~(req.first /\ req.id \in okCheckIns)]_vars

\* C7: the transaction of check-out on an existing booking sets that booking's
\* status to checked-out and changes no other row: not the room's status, no guest,
\* bill, bill item or archive row.
C7_CheckOutFrame ==
    [][\A req \in Requests :
          (TxStep(req, "check-out") /\ req.id \in DOMAIN bookings) =>
              /\ bookings' = [bookings EXCEPT ![req.id].status = "checked-out"]
              /\ rooms' = rooms
              /\ guests' = guests
              /\ bills' = bills
              /\ billItems' = billItems
              /\ archive' = archive]_vars

\* A check-out was answered for a booking that stands checked-out in an occupied room.
C7_Witness ==
    /\ Answered("check-out", 200)
    /\ last.id \in DOMAIN bookings
    /\ bookings[last.id].status = "checked-out"
    /\ rooms[RoomOf(last.id)].status = "occupied"

C9_OneArchiveRowPerStay ==
    \A b \in BookingIds :
        Cardinality({a \in DOMAIN archive : archive[a].bookingId = b}) <= 1

\* C10: a complete-bill that fails (answered 500) leaves every table as it was, and
\* no complete-bill makes a room available without adding the stay's archive row.
C10_CompleteAllOrNothing ==
    [][\A req \in Requests :
          /\ TxOk(req, "complete-bill", 500) =>
                 /\ rooms' = rooms
                 /\ guests' = guests
                 /\ bookings' = bookings
                 /\ bills' = bills
                 /\ billItems' = billItems
                 /\ archive' = archive
          /\ (/\ TxStep(req, "complete-bill")
              /\ req.booking.roomId \in DOMAIN rooms
              /\ rooms[req.booking.roomId].status # "available"
              /\ rooms'[req.booking.roomId].status = "available") =>
                 \E a \in DOMAIN archive' \ DOMAIN archive :
                     archive'[a].bookingId = req.id]_vars

\* A complete-bill failed on a stay that has its booking, its bill, its bill item
\* and its guest, in a room that is not available; nothing was archived.
C10_Witness ==
    /\ Answered("complete-bill", 500)
    /\ last.id \in DOMAIN bookings
    /\ Rows(bills, last.id) # {}
    /\ Rows(billItems, last.id) # {}
    /\ bookings[last.id].guestId \in guests
    /\ rooms[RoomOf(last.id)].status = "occupied"
    /\ archive = EmptyTable

\* C11: every booking's guestId refers to a guest row that exists, in every
\* reachable state: neither DELETE /guests/:id nor the complete-bill of another
\* booking of the guest removes a guest that a booking refers to.
C11_GuestExists ==
    \A b \in DOMAIN bookings : bookings[b].guestId \in guests

\* DELETE /guests/:id was refused for a guest who has a booking.
C11_Witness ==
    /\ Answered("delete-guest", 500)
    /\ last.id \in guests
    /\ GuestReferenced(last.id, bookings)

\* C12: no booking has more than one bill row, in every reachable state, whatever
\* generate-bill requests were made for it, interleaved ones included.
C12_OneBillPerBooking ==
    \A b \in BookingIds : Cardinality(Rows(bills, b)) <= 1

\* C13: every bill's subtotal is the sum of amount x quantity over the bill items
\* stored for its booking, in every reachable state.
C13_SubtotalIsSum ==
    \A b \in DOMAIN bills :
        bills[b].subtotal =
            SumItems(billItems, Rows(billItems, bills[b].bookingId))

\* C14: every bill's taxAmount is its subtotal x 10 / 100 rounded to the cent, and
\* its total is its subtotal plus its taxAmount, in every reachable state.
C14_TaxAndTotal ==
    \A b \in DOMAIN bills :
        /\ bills[b].taxAmount = ToFixed2(bills[b].subtotal * TaxPercent)
        /\ bills[b].total = bills[b].subtotal + bills[b].taxAmount

\* C15: a create-booking for more guests than its room holds is answered with the
\* capacity error, whatever the room's status, and changes no room and no booking.
C15_OverCapacityRejected ==
    [][\A body \in Bodies(BodyStatuses, Stays) :
          (/\ CreateBookingRead(body)
           /\ body.roomId \in DOMAIN rooms
           /\ body.numberOfGuests > rooms[body.roomId].capacity) =>
              /\ last' = [op |-> "create-booking", code |-> 400, id |-> 0,
                          error |-> "capacity"]
              /\ inflight' = inflight
              /\ rooms' = rooms
              /\ bookings' = bookings]_vars

\* A create-booking was refused for its capacity on a room that is not available.
C15_Witness ==
    /\ Answered("create-booking", 400) /\ last.error = "capacity"
    /\ \E r \in DOMAIN rooms : rooms[r].status # "available"

C17_CheckInAtomic ==
    [][/\ \A req \in Requests :
             (TxStep(req, "check-in") /\ req.id \in DOMAIN bookings) =>
                 /\ last'.code = 200
                 /\ req.roomId \in DOMAIN rooms
                 /\ bookings' = [bookings EXCEPT ![req.id].status = "checked-in"]
                 /\ rooms' = [rooms EXCEPT ![req.roomId].status = "occupied"]
       /\ \A id \in BookingIds :
             (CheckInRead(id) /\ id \notin DOMAIN bookings) =>
                 last'.code = 404 /\ UNCHANGED db
       /\ \A req \in Requests :
             (CheckInBill(req) /\ Rows(bills, req.id) # {}) =>
                 /\ last'.code = 400 /\ last'.error = "bill-exists"
                 /\ UNCHANGED db]_vars

\* A check-in was answered 200: the booking stands checked-in in an occupied room.
C17_Witness ==
    /\ Answered("check-in", 200)
    /\ last.id \in DOMAIN bookings
    /\ bookings[last.id].status = "checked-in"
    /\ rooms[RoomOf(last.id)].status = "occupied"

\* The room charge of a bill: the bill items of category room.
RoomCharges == {i \in DOMAIN billItems : billItems[i].category = "room"}

\* C18: every room charge that generate-bill created has a quantity of at least one
\* night, also for a booking that ends when it begins, so that the charge of a
\* room with a positive price is positive.
C18_AtLeastOneNight ==
    \A i \in RoomCharges :
        /\ billItems[i].quantity >= 1
        /\ billItems[i].amount > 0 => billItems[i].amount * billItems[i].quantity > 0

\* A bill was generated for a booking that ends when it begins: one night is charged.
C18_Witness ==
    \E i \in RoomCharges :
        /\ billItems[i].bookingId \in DOMAIN bookings
        /\ bookings[billItems[i].bookingId].checkInDate =
               bookings[billItems[i].bookingId].checkOutDate
        /\ billItems[i].quantity = 1
        /\ Rows(bills, billItems[i].bookingId) # {}

Max(a, b) == IF a >= b THEN a ELSE b

\* C19: the room charge of every booking, a booking that ends before it begins
\* included, has the room's price as its amount and
\* max(1, ceil((checkOut - checkIn) / 1 day)) as its quantity.
C19_NightsFormula ==
    \A i \in RoomCharges :
        LET b == billItems[i].bookingId
        IN  (b \in DOMAIN bookings /\ RoomOf(b) \in DOMAIN rooms) =>
                /\ billItems[i].amount = rooms[RoomOf(b)].pricePerNight
                /\ billItems[i].quantity =
                       Max(1, Ceil(bookings[b].checkOutDate - bookings[b].checkInDate,
                                   Day))

\* C20: every booking's checkOutDate is later than its checkInDate, in every
\* reachable state.
C20_CheckOutAfterCheckIn ==
    \A b \in DOMAIN bookings : bookings[b].checkOutDate > bookings[b].checkInDate

\* C21: DELETE /rooms/:id of a room that is occupied or reserved is refused and
\* leaves the row; of a room that is available or under maintenance it is
\* answered 204 and removes the row.
C21_DeleteRoomByStatus ==
    [][\A id \in RoomIds :
          (DeleteRoom(id) /\ id \in DOMAIN rooms) =>
              IF rooms[id].status \in {"occupied", "reserved"}
              THEN last'.code # 204 /\ rooms' = rooms
              ELSE last'.code = 204 /\ id \notin DOMAIN rooms']_vars

\* The bill of booking b is the one bill with these figures.
BillIs(tbl, b, subtotal, taxAmount, total) ==
    /\ Rows(tbl, b) # {}
    /\ \A i \in Rows(tbl, b) :
           /\ tbl[i].subtotal = subtotal
           /\ tbl[i].taxAmount = taxAmount
           /\ tbl[i].total = total

\* C22: with one request at a time, for a room of capacity 2 at 100.00 a night and a
\* stay of 2 nights for 2 guests: create-booking leaves booking and room reserved;
\* check-in leaves the room occupied; check-out leaves the booking checked-out and
\* the room as it was; generate-bill gives 200.00 / 20.00 / 220.00; add-bill-item
\* of 15.00 x 1 gives 215.00 / 21.50 / 236.50; complete-bill is answered 200 and
\* leaves the room available, one archive row with the bill's total, and no guest,
\* booking, bill or bill item of the stay.
C22_StayScenario ==
    [][\A req \in Requests :
          /\ (CreateBookingTx(req, 0) /\ req.body.guestId \in guests) =>
                 /\ last'.code = 201
                 /\ bookings'[nextId.bookings].status = "reserved"
                 /\ rooms'[req.body.roomId].status = "reserved"
          /\ CheckInTx(req) =>
                 /\ last'.code = 200
                 /\ bookings'[req.id].status = "checked-in"
                 /\ rooms'[req.roomId].status = "occupied"
          /\ CheckOutTx(req) =>
                 /\ last'.code = 200
                 /\ bookings'[req.id].status = "checked-out"
                 /\ rooms' = rooms
          /\ GenerateTx(req, 0) =>
                 /\ last'.code = 201
                 /\ BillIs(bills', req.id, 20000, 2000, 22000)
          /\ (AddItemTx(req) /\ BillIs(bills, req.newItem.bookingId, 20000, 2000, 22000)) =>
                 /\ last'.code = 201
                 /\ BillIs(bills', req.newItem.bookingId, 21500, 2150, 23650)
          /\ (/\ CompleteTx(req, 0)
              /\ \A b \in DOMAIN bookings \ {req.id} :
                     bookings[b].guestId # req.booking.guestId) =>
                 /\ last'.code = 200
                 /\ rooms'[req.booking.roomId].status = "available"
                 /\ \E a \in DOMAIN archive' \ DOMAIN archive :
                        /\ DOMAIN archive' = DOMAIN archive \cup {a}
                        /\ archive'[a].bookingId = req.id
                        /\ archive'[a].total = req.bill.total
                 /\ req.id \notin DOMAIN bookings'
                 /\ Rows(bills', req.id) = {}
                 /\ Rows(billItems', req.id) = {}
                 /\ req.booking.guestId \notin guests']_vars

\* C23: the transaction of create-booking either inserts the booking and sets the
\* room reserved (201) or, when one of its writes fails, leaves every table as it
\* was (500); the one of generate-bill either inserts the room charge and the bill
\* (201) or leaves every table as it was (500).
C23_CreateAndGenerateAllOrNothing ==
    [][\A req \in Requests :
          /\ TxStep(req, "create-booking") =>
                 \/ /\ last'.code = 201
                    /\ DOMAIN bookings' = DOMAIN bookings \cup {nextId.bookings}
                    /\ nextId.bookings \notin DOMAIN bookings
                    /\ rooms' = [rooms EXCEPT ![req.body.roomId].status = "reserved"]
                 \/ /\ last'.code = 500
                    /\ bookings' = bookings
                    /\ rooms' = rooms
          /\ TxStep(req, "generate-bill") =>
                 \/ /\ last'.code = 201
                    /\ Cardinality(Rows(billItems', req.id)) =
                           Cardinality(Rows(billItems, req.id)) + 1
                    /\ Cardinality(Rows(bills', req.id)) =
                           Cardinality(Rows(bills, req.id)) + 1
                 \/ /\ last'.code = 500
                    /\ billItems' = billItems
                    /\ bills' = bills]_vars

\* A create-booking failed though its guest and its room exist: the room is
\* available and there is no booking.
C23_Witness ==
    /\ Answered("create-booking", 500)
    /\ guests = GuestIds
    /\ \E r \in DOMAIN rooms : rooms[r].status = "available"
    /\ bookings = EmptyTable

\* The step that ends request req of the user routes.
UserStep(req) ==
    /\ Pending(req) /\ req.op \in {"register", "delete-user", "list-users"}
    /\ inflight' = Done(req)

IsAdmin(caller) == caller \in DOMAIN users /\ users[caller].role = "admin"

\* C24: listing, registering and deleting users succeed only for a caller who is
\* an existing user with the role admin, and the set of users changes only in
\* such a request: any other caller is refused and leaves the users as they were.
C24_AdminOnly ==
    [][/\ \A req \in Requests :
             (UserStep(req) /\ last'.code \in {200, 201, 204}) => IsAdmin(req.caller)
       /\ users' # users =>
             \E req \in Requests : UserStep(req) /\ IsAdmin(req.caller)]_vars

\* C25: the archive row that a complete-bill writes has as its total the subtotal
\* plus tax of all the bill items stored for the booking when the transaction
\* removes its rows, add-item requests that interleave with it included.  (Stated
\* for the case that the booking's bill agrees with its items at that moment, so
\* that a bill whose own subtotal is stale, C13, is left out.)
C25_ArchivedTotal ==
    [][\A req \in Requests :
          (/\ TxOk(req, "complete-bill", 200)
           /\ \A b \in Rows(bills, req.id) :
                  bills[b].subtotal = SumItems(billItems, Rows(billItems, req.id))) =>
              LET subtotal == SumItems(billItems, Rows(billItems, req.id))
              IN  /\ nextId.archive \in DOMAIN archive'
                  /\ archive'[nextId.archive].total =
                         subtotal + ToFixed2(subtotal * TaxPercent)]_vars

\* Booking b has been completed: an archive row stands for its stay.
Completed(b) == \E a \in DOMAIN archive : archive[a].bookingId = b

\* Request req takes a step of its handler.
Steps(req) == Pending(req) /\ CopiesIn(req, inflight') < CopiesIn(req, inflight)

\* C26: once complete-bill has succeeded for a booking, an add-item for that
\* booking inserts no bill item and changes no bill, and when it looks for the
\* booking's bill it finds none and is answered not-found.
C26_NoItemAfterCompletion ==
    [][\A req \in Requests :
          (Steps(req) /\ req.op = "add-item" /\ Completed(req.newItem.bookingId)) =>
              /\ billItems' = billItems /\ bills' = bills
              /\ inflight' = Done(req)
              /\ last'.op = "add-item" /\ last'.id = req.newItem.bookingId
              /\ req.pc = "bill" => last'.code = 404
              /\ req.pc = "tx" => last'.code = 500]_vars

C26_Witness ==
    /\ Answered("add-item", 404) /\ Completed(last.id)
    /\ rooms # EmptyTable /\ bookings = EmptyTable

\* C27: an add-item for a booking that has no bill is answered not-found and
\* inserts no bill item; a bill item exists for a booking only if a bill exists for
\* that booking.
C27_NoItemWithoutBill ==
    [][/\ \A req \in Requests :
             (/\ Steps(req) /\ req.op = "add-item" /\ req.pc = "bill"
              /\ Rows(bills, req.newItem.bookingId) = {}) =>
                 /\ inflight' = Done(req)
                 /\ last'.op = "add-item" /\ last'.code = 404
                 /\ billItems' = billItems /\ bills' = bills
       /\ \A i \in DOMAIN billItems' : Rows(bills', billItems'[i].bookingId) # {}]_vars

C27_Witness ==
    /\ Answered("add-item", 404) /\ last.id \in DOMAIN bookings
    /\ bills = EmptyTable /\ billItems = EmptyTable

\* C28: the archive is append-only: it changes only in a complete-bill that is
\* answered 200, which adds one new row; no step changes a field of an archive
\* row or removes one, so the set of archive rows only grows.
C28_ArchiveAppendOnly ==
    [][/\ \A a \in DOMAIN archive : a \in DOMAIN archive' /\ archive'[a] = archive[a]
       /\ \A req \in Requests :
             TxOk(req, "complete-bill", 200) =>
                 /\ nextId.archive \notin DOMAIN archive
                 /\ DOMAIN archive' = DOMAIN archive \cup {nextId.archive}
       /\ archive' # archive =>
             \E req \in Requests : TxOk(req, "complete-bill", 200)]_vars

C28_Witness ==
    /\ Cardinality(DOMAIN archive) = 2
    /\ Answered("complete-bill", 200)

\* C29: a check-in whose update finds the booking row gone (an interleaved
\* complete-bill removed it after the check-in read it) is answered with the
\* error of the check-in, code 400, not the generic failure, and leaves every room's
\* status as it was.
C29_CheckInLostBooking ==
    [][\A req \in Requests :
          (TxStep(req, "check-in") /\ req.id \notin DOMAIN bookings) =>
              /\ last' = [op |-> "check-in", code |-> 400, id |-> req.id,
                          error |-> "not-updated"]
              /\ rooms' = rooms /\ bookings' = bookings]_vars

C29_Witness ==
    /\ Answered("check-in", 400) /\ last.error = "not-updated"
    /\ last.id \notin DOMAIN bookings /\ Completed(last.id)
    /\ \A r \in DOMAIN rooms : rooms[r].status = "available"

\* C30: no room is left stuck: in every reachable state a room whose status is
\* reserved or occupied is the room of a booking that is reserved, checked-in or
\* checked-out.
C30_NoStuckRoom ==
    \A r \in DOMAIN rooms :
        rooms[r].status \in {"reserved", "occupied"} =>
            \E b \in DOMAIN bookings :
                bookings[b].roomId = r /\ bookings[b].status \in ActiveStatuses

====
